---- MODULE Spec2Model ----
(***************************************************************************)
(* Model of snakemake/logging.py: the process-wide Logger facade, its      *)
(* default console handler, setup_logger, and the ColorizingStreamHandler  *)
(* whose emit serialises writes with the class-level _output_lock.         *)
(***************************************************************************)
EXTENDS Integers, Sequences, FiniteSets, TLC

\* ------------------------------------------------------------------ bounds
NumThreads == 2     \* caller threads using the event API
MaxSetups  == 2     \* setup_logger / set_stream_handler calls in a run
MaxEvents  == 2     \* event-method calls in a run

Threads == 1..NumThreads

\* ------------------------------------------------------------- vocabulary
Kinds == {"info", "debug", "error", "progress", "resources_info",
          "run_info", "job_info", "d3dag"}

Streams == {"stderr", "stdout"}

CustomHandlers == {"h1", "h2"}

\* exceptions that a step of emit can raise
ExcKinds == {"BrokenPipeError", "KeyboardInterrupt", "SystemExit", "Exception"}

\* the four statements of the try block of emit
EmitSteps == {"format", "write_msg", "write_term", "flush"}

\* the calls the callers make: kind is the method called; job_info carries an
\* optional msg override and a shellcmd that may be empty; job_info and d3dag
\* take keywords, so their caller can pass a keyword named level ("none" when
\* it does not); the other kinds carry nothing that decides what is emitted
\* (progress is called with total > 0)
Events ==
    [kind : Kinds \ {"job_info", "d3dag"}, level : {"none"}, msg : {FALSE},
     shellcmd : {""}]
    \cup [kind : {"d3dag"}, level : {"none", "info"}, msg : {FALSE}, shellcmd : {""}]
    \cup [kind : {"job_info"}, level : {"none", "info"}, msg : BOOLEAN,
          shellcmd : {"", "cmd"}]

NoEvent == [kind |-> "none", level |-> "none", msg |-> FALSE, shellcmd |-> ""]

MethodDict_KeepCallerLevel(e) ==
    IF e.level # "none" THEN e ELSE [e EXCEPT !.level = e.kind]

\* the dict an event method passes to the handler: its level entry is the
\* kind of the method, written over a level keyword of the caller
MethodDict(e) == [e EXCEPT !.level = e.kind]

VARIABLES
    handler,          \* Logger.handler: "console" or a custom callable
    stream_handler,   \* Logger.stream_handler: 0 (None) or a writer id
    handlers,         \* Logger.logger.handlers: sequence of writer ids
    level,            \* Logger.logger.level: "NOTSET", "INFO" or "DEBUG"
    quiet,            \* Logger.quiet: "unset", "True" or "False"
    printshellcmds,   \* Logger.printshellcmds
    printreason,      \* Logger.printreason
    writers,          \* the ColorizingStreamHandler instances created so far
    held,             \* the locks held: pairs <<lock, thread>>
    stream,           \* what has been written to each output stream
    thr,              \* per thread: position in the call and its bookkeeping
    nsetups,          \* number of setup / set_stream_handler calls so far
    nevents,          \* number of event-method calls so far
    lastHandlerArg,   \* handler argument of the latest setup_logger call
    lastDebugArg,     \* debug argument of the latest setup_logger call
    onlyInterrupts,   \* no exception other than an interrupt hit an emit yet
    args,             \* arguments of the rendering function under study
    out               \* what that function returned, once it has been applied

vars == <<handler, stream_handler, handlers, level, quiet, printshellcmds,
          printreason, writers, held, stream, thr, nsetups, nevents,
          lastHandlerArg, lastDebugArg, onlyInterrupts, args, out>>

\* the call of a rendering function taken on its own
rendering == <<args, out>>

\* what the run has seen so far, kept to state the properties
history == <<lastHandlerArg, lastDebugArg, onlyInterrupts>>

config == <<handler, stream_handler, handlers, level, quiet, printshellcmds,
            printreason, writers>>

\* ----------------------------------------------------------- thread state
IdleThread ==
    [pc     |-> "idle",    \* idle, shell, acquire, an emit step, or ret
     ev     |-> NoEvent,   \* the event being handled
     kw     |-> "none",    \* the level keyword the caller passed, if any
     via    |-> "none",    \* the handler the event was passed to
     hcalls |-> 0,         \* calls of the handler made by the event method
     todo   |-> <<>>,      \* writers the current record still goes to
     sev    |-> "NOTSET",  \* severity of the current record
     tag    |-> "none",    \* which logger call of the handler made it
     calls  |-> <<>>,      \* logger calls made for this event, in order
     emits  |-> 0,         \* records of this event handed to a writer
     herr   |-> 0,         \* handleError calls made for the current record
     exc    |-> "none",    \* exception caught in emit for the current record
     raised |-> "none",    \* exception that left the event method
     epoch  |-> 0]         \* nsetups when the event method was called

\* ------------------------------------------------- the logging engine
LevelNo(l) ==
    CASE l = "NOTSET"  -> 0
      [] l = "DEBUG"   -> 10
      [] l = "INFO"    -> 20
      [] l = "WARNING" -> 30
      [] l = "ERROR"   -> 40

\* getLogger(__name__) starts at NOTSET and then inherits the root's WARNING
EffectiveLevel(l) == IF l = "NOTSET" THEN "WARNING" ELSE l

IsEnabledFor(sev, l) == LevelNo(sev) >= LevelNo(EffectiveLevel(l))

\* with no handler attached the engine falls back to its last-resort handler,
\* which writes WARNING and above to stderr as one complete line
LastResort(sev, hs) == hs = <<>> /\ LevelNo(sev) >= LevelNo("WARNING")

\* ------------------------------------------------ ColorizingStreamHandler
\* the lock of the class is lock 0; a lock owned by instance w would be lock w
LockFor_PerInstance(w) == w

\* the lock an instance takes in emit: the class attribute _output_lock
LockFor(w) == 0

EmitOutcome_CatchAll(e) ==
    CASE e \in {"KeyboardInterrupt", "SystemExit"} -> "swallow"
      [] OTHER -> "handleError"

EmitOutcome_NoCatchAll(e) ==
    CASE e \in {"KeyboardInterrupt", "SystemExit"} -> "swallow"
      [] OTHER -> "raise"

\* the except clauses of emit
EmitOutcome(e) ==
    CASE e = "BrokenPipeError" -> "raise"
      [] e \in {"KeyboardInterrupt", "SystemExit"} -> "swallow"
      [] OTHER -> "handleError"

WithExitReleases_NotWhenSwallowed(outcome) == outcome # "swallow"

\* leaving the with block releases the lock whatever the outcome
WithExitReleases(outcome) == TRUE

Holder(l) == {p[2] : p \in {q \in held : q[1] = l}}

\* ------------------------------------------------- default console handler
ConsoleFirst_EmitDag(e, q) ==
    CASE e.level \in {"info", "resources_info", "run_info"} ->
            [act |-> "log", sev |-> "WARNING", tag |-> "msg"]
      [] e.level = "error" ->
            [act |-> "log", sev |-> "ERROR", tag |-> "msg"]
      [] e.level = "debug" ->
            [act |-> "log", sev |-> "DEBUG", tag |-> "msg"]
      [] e.level = "progress" ->
            IF q = "unset" THEN [act |-> "raise", sev |-> "NOTSET", tag |-> "none"]
            ELSE IF q = "False" THEN [act |-> "log", sev |-> "INFO", tag |-> "progress"]
            ELSE [act |-> "none", sev |-> "NOTSET", tag |-> "none"]
      [] e.level = "job_info" ->
            IF q = "unset" THEN [act |-> "raise", sev |-> "NOTSET", tag |-> "none"]
            ELSE IF q = "False" THEN [act |-> "log", sev |-> "INFO", tag |-> "summary"]
            ELSE [act |-> "none", sev |-> "NOTSET", tag |-> "none"]
      [] e.level = "d3dag" ->
            [act |-> "log", sev |-> "INFO", tag |-> "msg"]
      [] OTHER -> [act |-> "none", sev |-> "NOTSET", tag |-> "none"]

\* the first decision of console_handler for an event dict: a logger call,
\* nothing, or the AttributeError of reading a quiet that was never assigned
ConsoleFirst(e, q) ==
    CASE e.level \in {"info", "resources_info", "run_info"} ->
            [act |-> "log", sev |-> "WARNING", tag |-> "msg"]
      [] e.level = "error" ->
            [act |-> "log", sev |-> "ERROR", tag |-> "msg"]
      [] e.level = "debug" ->
            [act |-> "log", sev |-> "DEBUG", tag |-> "msg"]
      [] e.level = "progress" ->
            IF q = "unset" THEN [act |-> "raise", sev |-> "NOTSET", tag |-> "none"]
            ELSE IF q = "False" THEN [act |-> "log", sev |-> "INFO", tag |-> "progress"]
            ELSE [act |-> "none", sev |-> "NOTSET", tag |-> "none"]
      [] e.level = "job_info" ->
            IF q = "unset" THEN [act |-> "raise", sev |-> "NOTSET", tag |-> "none"]
            ELSE IF q = "False" THEN [act |-> "log", sev |-> "INFO", tag |-> "summary"]
            ELSE [act |-> "none", sev |-> "NOTSET", tag |-> "none"]
      [] OTHER -> [act |-> "none", sev |-> "NOTSET", tag |-> "none"]

ShellCmdLogged_UnlessQuiet(e, psc) == psc /\ e.shellcmd # "" /\ quiet # "True"

\* the second decision of console_handler for job_info
ShellCmdLogged(e, psc) == psc /\ e.shellcmd # ""

\* where the handler continues once a record is through: job_info goes on to
\* its shellcmd decision after the summary decision, all else returns
AfterRecord(ts, stage) ==
    [ts EXCEPT !.pc = IF ts.ev.level = "job_info" /\ stage = "summary"
                      THEN "shell" ELSE "ret",
               !.todo = <<>>]

\* logger.warning/info/debug/error(msg): level filter, then every attached
\* handler in turn (or the last-resort handler when none is attached)
Log(ts, sev, tag, stage) ==
    LET made == [ts EXCEPT !.calls = Append(@, tag), !.sev = sev, !.tag = tag,
                           !.exc = "none", !.herr = 0] IN
    IF ~IsEnabledFor(sev, level) THEN AfterRecord(made, stage)
    ELSE IF handlers = <<>>
         THEN AfterRecord([made EXCEPT !.emits =
                              @ + (IF LastResort(sev, handlers) THEN 1 ELSE 0)],
                          stage)
         ELSE [made EXCEPT !.pc = "acquire", !.todo = handlers]

LastResortWrite(sev) ==
    IF IsEnabledFor(sev, level) /\ LastResort(sev, handlers)
    THEN [stream EXCEPT !["stderr"] = @ \o <<"m", "nl">>]
    ELSE stream

\* ------------------------------------------------------------------- Init
InitWith(T) ==
    /\ handler = "console"
    /\ stream_handler = 0
    /\ handlers = <<>>
    /\ level = "NOTSET"
    /\ quiet = "unset"
    /\ printshellcmds = FALSE
    /\ printreason = FALSE
    /\ writers = <<>>
    /\ held = {}
    /\ stream = [s \in Streams |-> <<>>]
    /\ thr = [t \in T |-> IdleThread]
    /\ nsetups = 0
    /\ nevents = 0
    /\ lastHandlerArg = "None"
    /\ lastDebugArg = FALSE
    /\ onlyInterrupts = TRUE

\* no rendering function is under study
NoArgs == [fn |-> "none"]

NoOut == [done |-> FALSE, at |-> 0, val |-> <<>>]

\* ------------------------------------------------------------ setup side
SetStreamHandlerHandlers_NoRemove(hs, old, new) ==
    IF \E i \in 1..Len(hs) : hs[i] = new THEN hs ELSE Append(hs, new)

\* Logger.set_stream_handler: removeHandler of the old writer, addHandler of
\* the new one (addHandler skips a handler that is already attached)
SetStreamHandlerHandlers(hs, old, new) ==
    LET removed == IF old # 0 THEN SelectSeq(hs, LAMBDA x : x # old) ELSE hs IN
    IF \E i \in 1..Len(removed) : removed[i] = new THEN removed
    ELSE Append(removed, new)

SetupHandler_Reset(cur, h) == IF h # "None" THEN h ELSE "console"

\* the handler assignment of setup_logger
SetupHandler(cur, h) == IF h # "None" THEN h ELSE cur

SetupLevel_IgnoreDebug(dbg) == "INFO"

\* logger.set_level(_logging.DEBUG if debug else _logging.INFO)
SetupLevel(dbg) == IF dbg THEN "DEBUG" ELSE "INFO"

\* ColorizingStreamHandler(stream=sys.stdout if stdout else sys.stderr)
NewWriter(so) == [stream |-> IF so THEN "stdout" ELSE "stderr"]

setup_logger(h, q, psc, pr, so, dbg) ==
    /\ nsetups < MaxSetups
    /\ LET w == Len(writers) + 1 IN
        /\ handler' = SetupHandler(handler, h)
        /\ writers' = Append(writers, NewWriter(so))
        /\ handlers' = SetStreamHandlerHandlers(handlers, stream_handler, w)
        /\ stream_handler' = w
    /\ level' = SetupLevel(dbg)
    /\ quiet' = IF q THEN "True" ELSE "False"
    /\ printshellcmds' = psc
    /\ printreason' = pr
    /\ nsetups' = nsetups + 1
    /\ lastHandlerArg' = h
    /\ lastDebugArg' = dbg
    /\ UNCHANGED <<held, stream, thr, nevents, onlyInterrupts, rendering>>

\* a direct call of logger.set_stream_handler with a writer made by the
\* caller: a new instance or one made earlier
set_stream_handler(w, so) ==
    /\ nsetups < MaxSetups
    /\ w \in 1..(Len(writers) + 1)
    /\ writers' = IF w > Len(writers) THEN Append(writers, NewWriter(so))
                  ELSE writers
    /\ handlers' = SetStreamHandlerHandlers(handlers, stream_handler, w)
    /\ stream_handler' = w
    /\ nsetups' = nsetups + 1
    /\ UNCHANGED <<handler, level, quiet, printshellcmds, printreason, held,
                   stream, thr, nevents, history, rendering>>

\* ------------------------------------------------------------ event side
\* Logger.info/debug/error/progress/resources_info/run_info/job_info/d3dag:
\* tag the event, hand it to the active handler; the console handler runs up
\* to its first logger call
CallEvent(t, e) ==
    /\ thr[t].pc = "idle"
    /\ nevents < MaxEvents
    /\ nevents' = nevents + 1
    /\ LET msg  == MethodDict(e)
           base == [IdleThread EXCEPT !.ev = msg, !.kw = e.level, !.via = handler,
                                      !.hcalls = 1, !.epoch = nsetups]
           d    == ConsoleFirst(msg, quiet)
       IN IF handler # "console"
          THEN /\ thr' = [thr EXCEPT ![t] = [base EXCEPT !.pc = "ret"]]
               /\ stream' = stream
          ELSE CASE d.act = "raise" ->
                    /\ thr' = [thr EXCEPT ![t] = [base EXCEPT !.pc = "ret",
                                                  !.raised = "AttributeError"]]
                    /\ stream' = stream
                 [] d.act = "none" ->
                    /\ thr' = [thr EXCEPT ![t] = AfterRecord(base, "summary")]
                    /\ stream' = stream
                 [] d.act = "log" ->
                    /\ thr' = [thr EXCEPT ![t] = Log(base, d.sev, d.tag, "summary")]
                    /\ stream' = LastResortWrite(d.sev)
    /\ UNCHANGED <<config, held, nsetups, history, rendering>>

\* console_handler, job_info: the shellcmd decision
JobInfoShell(t) ==
    /\ thr[t].pc = "shell"
    /\ IF ShellCmdLogged(thr[t].ev, printshellcmds)
       THEN /\ thr' = [thr EXCEPT ![t] = Log(thr[t], "INFO", "shell", "shell")]
            /\ stream' = LastResortWrite("INFO")
       ELSE /\ thr' = [thr EXCEPT ![t] = AfterRecord(thr[t], "shell")]
            /\ stream' = stream
    /\ UNCHANGED <<config, held, nsetups, nevents, history, rendering>>

\* the event method returns to its caller
Return(t) ==
    /\ thr[t].pc = "ret"
    /\ thr' = [thr EXCEPT ![t] = IdleThread]
    /\ UNCHANGED <<config, held, stream, nsetups, nevents, history, rendering>>

\* ------------------------------------------------------------------ emit
CurWriter(t) == Head(thr[t].todo)

\* with self._output_lock: blocks until the lock is free
Acquire(t) ==
    /\ thr[t].pc = "acquire"
    /\ Holder(LockFor(CurWriter(t))) = {}
    /\ held' = held \cup {<<LockFor(CurWriter(t)), t>>}
    /\ thr' = [thr EXCEPT ![t].pc = "format", ![t].emits = @ + 1]
    /\ UNCHANGED <<config, stream, nsetups, nevents, history, rendering>>

\* self.format(record)
Format(t) ==
    /\ thr[t].pc = "format"
    /\ thr' = [thr EXCEPT ![t].pc = "write_msg"]
    /\ UNCHANGED <<config, held, stream, nsetups, nevents, history, rendering>>

\* self.stream.write(self.decorate(record))
WriteMsg(t) ==
    /\ thr[t].pc = "write_msg"
    /\ stream' = [stream EXCEPT ![writers[CurWriter(t)].stream] = Append(@, "m")]
    /\ thr' = [thr EXCEPT ![t].pc = "write_term"]
    /\ UNCHANGED <<config, held, nsetups, nevents, history, rendering>>

\* self.stream.write(terminator)
WriteTerm(t) ==
    /\ thr[t].pc = "write_term"
    /\ stream' = [stream EXCEPT ![writers[CurWriter(t)].stream] = Append(@, "nl")]
    /\ thr' = [thr EXCEPT ![t].pc = "flush"]
    /\ UNCHANGED <<config, held, nsetups, nevents, history, rendering>>

\* the thread state once emit has returned without raising: the next attached
\* handler, or back in the console handler
EmitReturned(ts) ==
    IF Len(ts.todo) > 1 THEN [ts EXCEPT !.pc = "acquire", !.todo = Tail(@)]
    ELSE AfterRecord(ts, ts.tag)

HeldAfter(t, outcome) ==
    IF WithExitReleases(outcome) THEN held \ {<<LockFor(CurWriter(t)), t>>}
    ELSE held

\* self.flush(), then the end of the with block
Flush(t) ==
    /\ thr[t].pc = "flush"
    /\ held' = HeldAfter(t, "ok")
    /\ thr' = [thr EXCEPT ![t] = EmitReturned(thr[t])]
    /\ UNCHANGED <<config, stream, nsetups, nevents, history, rendering>>

\* a statement of the try block raises e: the matching except clause runs and
\* the with block is left
Fault(t, e) ==
    /\ thr[t].pc \in EmitSteps
    /\ LET outcome == EmitOutcome(e)
           caught  == [thr[t] EXCEPT !.exc = e] IN
        /\ held' = HeldAfter(t, outcome)
        /\ thr' = [thr EXCEPT ![t] =
                     CASE outcome = "raise" ->
                            [caught EXCEPT !.pc = "ret", !.raised = e, !.todo = <<>>]
                       [] outcome = "swallow" -> EmitReturned(caught)
                       [] OTHER -> EmitReturned([caught EXCEPT !.herr = @ + 1])]
    /\ onlyInterrupts' = (onlyInterrupts /\ e \in {"KeyboardInterrupt", "SystemExit"})
    /\ UNCHANGED <<config, stream, nsetups, nevents, lastHandlerArg, lastDebugArg,
                   rendering>>

\* ---------------------------------------------------------- rendered text
\* Python values that reach str.format: None, int, str and list of str
PyNone == <<"None">>

PyInt(n) == <<"int", n>>

PyStr(x) == <<"str", x>>

PyList(l) == <<"list", l>>

\* str(value)
Str(v) ==
    CASE v[1] = "None" -> "None"
      [] v[1] = "int"  -> ToString(v[2])
      [] OTHER         -> v[2]

\* bool(value)
Truthy(v) ==
    CASE v[1] = "None" -> FALSE
      [] v[1] = "int"  -> v[2] # 0
      [] v[1] = "str"  -> v[2] # ""
      [] OTHER         -> v[2] # <<>>

\* sep.join(parts)
RECURSIVE Join(_, _)
Join(sep, parts) ==
    IF parts = <<>> THEN ""
    ELSE IF Len(parts) = 1 THEN parts[1]
    ELSE parts[1] \o sep \o Join(sep, Tail(parts))

omit_resources_CoresOnly == {"_cores"}

\* the default of the parameter omit_resources: "_cores _nodes".split()
omit_resources == {"_cores", "_nodes"}

\* the generator of format_resources: a mapping is its items in insertion order
RECURSIVE ResourceEntries(_)
ResourceEntries(resources) ==
    IF resources = <<>> THEN <<>>
    ELSE (IF resources[1][1] \notin omit_resources
          THEN <<resources[1][1] \o "=" \o Str(resources[1][2])>> ELSE <<>>)
         \o ResourceEntries(Tail(resources))

format_resources(resources) == Join(", ", ResourceEntries(resources))

\* the generator of format_resource_names
RECURSIVE ResourceNames(_)
ResourceNames(resources) ==
    IF resources = <<>> THEN <<>>
    ELSE (IF resources[1][1] \notin omit_resources
          THEN <<resources[1][1]>> ELSE <<>>)
         \o ResourceNames(Tail(resources))

format_resource_names(resources) == Join(", ", ResourceNames(resources))

\* format_item of job_info: the line of an item, or nothing (None) when the
\* value equals omit
format_item(msg, item, omit, valueformat) ==
    LET value == msg[item] IN
    IF value # omit
    THEN <<"\t" \o item \o ": " \o
           (IF valueformat = "join" THEN Join(", ", value[2]) ELSE Str(value))>>
    ELSE <<>>

singleitems_AlwaysReason(pr) == <<"log", "reason">>

\* singleitems of job_info
singleitems(pr) == IF pr THEN <<"log", "reason">> ELSE <<"log">>

RECURSIVE SingleItemLines(_, _)
SingleItemLines(msg, items) ==
    IF items = <<>> THEN <<>>
    ELSE format_item(msg, items[1], PyNone, "str") \o SingleItemLines(msg, Tail(items))

\* the lines the generator job_info of console_handler yields
job_info(msg, pr) ==
    <<(IF msg.local THEN "local" ELSE "") \o "rule " \o msg.name \o ":">>
    \o format_item(msg, "input", PyList(<<>>), "join")
    \o format_item(msg, "output", PyList(<<>>), "join")
    \o SingleItemLines(msg, singleitems(pr))
    \o format_item(msg, "priority", PyInt(0), "str")
    \o format_item(msg, "threads", PyInt(1), "str")
    \o (IF format_resources(msg.resources) # ""
        THEN <<"\tresources: " \o format_resources(msg.resources)>> ELSE <<>>)

\* ------------------------------------------------- binary floating point
\* A Python float is an IEEE 754 double: 53 significant bits, results rounded
\* to nearest, ties to even.  A positive float is [m, e] of value m * 2^e,
\* its 53 bits m written as the leading 1 and four digits of 13 bits each,
\* most significant first; 0.0 has no digits.
Precision == 53

DigitBits == 13

Digit == 2^DigitBits

FloatZero == [m |-> <<>>, e |-> 0]

\* the 53 bits m plus one; the first digit becomes 2 when all bits were 1
IncMantissa(m) ==
    LET c4 == IF m[5] = Digit - 1 THEN 1 ELSE 0
        c3 == IF c4 = 1 /\ m[4] = Digit - 1 THEN 1 ELSE 0
        c2 == IF c3 = 1 /\ m[3] = Digit - 1 THEN 1 ELSE 0
        c1 == IF c2 = 1 /\ m[2] = Digit - 1 THEN 1 ELSE 0
    IN <<m[1] + c1, (m[2] + c2) % Digit, (m[3] + c3) % Digit,
         (m[4] + c4) % Digit, (m[5] + 1) % Digit>>

\* round to nearest, ties to even: m * 2^e followed by a first dropped bit
\* guard and, when sticky, by more non-zero bits
RoundToFloat(m, e, guard, sticky) ==
    LET up  == guard = 1 /\ (sticky \/ m[5] % 2 = 1)
        inc == IF up THEN IncMantissa(m) ELSE m
    IN IF inc[1] = 2 THEN [m |-> <<1, 0, 0, 0, 0>>, e |-> e + 1]
       ELSE [m |-> inc, e |-> e]

\* done / total of two ints (true division), 0 <= done, 0 < total: the
\* quotient is scaled into [1/2, 1) and expanded digit by digit
FloatDiv(d, t) ==
    IF d = 0 THEN FloatZero
    ELSE LET u  == CHOOSE u \in 0..8 : d < t * 2^u /\ (u = 0 \/ d >= t * 2^(u - 1))
             z  == CHOOSE z \in 0..12 :
                      /\ 2 * d * 2^z >= t * 2^u
                      /\ (z = 0 \/ 2 * d * 2^(z - 1) < t * 2^u)
             t2 == t * 2^u
             r1 == 2 * d * 2^z - t2
             r2 == (r1 * Digit) % t2
             r3 == (r2 * Digit) % t2
             r4 == (r3 * Digit) % t2
             r5 == (r4 * Digit) % t2
             g  == IF 2 * r5 >= t2 THEN 1 ELSE 0
         IN RoundToFloat(<<1, (r1 * Digit) \div t2, (r2 * Digit) \div t2,
                           (r3 * Digit) \div t2, (r4 * Digit) \div t2>>,
                         u - z - Precision, g, 2 * r5 - g * t2 # 0)

\* val *= 100 of the '%' presentation type: the exact product has 59 or 60
\* bits, of which the low 6 or 7 are rounded away
Times100(x) ==
    IF x.m = <<>> THEN FloatZero
    ELSE LET p4  == x.m[5] * 100
             p3  == x.m[4] * 100 + p4 \div Digit
             p2  == x.m[3] * 100 + p3 \div Digit
             p1  == x.m[2] * 100 + p2 \div Digit
             top == x.m[1] * 100 + p1 \div Digit
             s   == IF top >= 128 THEN 128 ELSE 64
             sh(hi, lo) == (hi % s) * (Digit \div s) + (lo % Digit) \div s
             low == (p4 % Digit) % s
         IN RoundToFloat(<<top \div s, sh(top, p1), sh(p1, p2), sh(p2, p3), sh(p3, p4)>>,
                         x.e + (IF s = 128 THEN 7 ELSE 6),
                         IF 2 * low >= s THEN 1 ELSE 0,
                         (2 * low) % s # 0)

\* the digits of format(x, '.0f') for 0 <= x < 2^13: the integer nearest to
\* the exact value of x, ties to even
FormatF0(x) ==
    IF x.m = <<>> \/ 0 - x.e > Precision THEN 0
    ELSE LET k     == 2^(0 - x.e - 3 * DigitBits)
             v     == x.m[1] * Digit + x.m[2]
             whole == v \div k
             frac  == v % k
             rest  == x.m[3] # 0 \/ x.m[4] # 0 \/ x.m[5] # 0
             up    == /\ 2 * frac >= k
                      /\ (2 * frac > k \/ rest \/ whole % 2 = 1)
         IN whole + (IF up THEN 1 ELSE 0)

\* "{:.0%}".format(done / total)
Percent(done, total) == FormatF0(Times100(FloatDiv(done, total)))

\* "{} of {} steps ({:.0%}) done".format(done, total, done / total)
ProgressText(done, total) ==
    ToString(done) \o " of " \o ToString(total) \o " steps ("
    \o ToString(Percent(done, total)) \o "%) done"

RecordMessage_AlwaysStructured(msg, tag, pr) ==
    CASE tag = "summary" -> Join("\n", job_info(msg, pr))
      [] tag = "progress" -> ProgressText(msg.done, msg.total)
      [] OTHER -> Str(msg.msg)

\* the message of the record a logger call of console_handler makes
RecordMessage(msg, tag, pr) ==
    CASE tag = "summary" ->
            IF msg.msg # PyNone THEN Str(msg.msg) ELSE Join("\n", job_info(msg, pr))
      [] tag = "progress" -> ProgressText(msg.done, msg.total)
      [] OTHER -> Str(msg.msg)

\* console_handler on a full event dict, the logging engine letting every
\* record through: the records of its logger calls in order (the lines of a
\* structured summary kept beside its message), or the exception it raises
ConsoleRecords(msg, q, psc, pr) ==
    LET first == ConsoleFirst(msg, q)
        shell == [shellcmd |-> IF Truthy(msg.shellcmd) THEN Str(msg.shellcmd) ELSE ""]
    IN IF first.act = "raise"
       THEN [raised |-> "AttributeError", records |-> <<>>, lines |-> <<>>]
       ELSE [raised  |-> "none",
             records |->
                (IF first.act = "log"
                 THEN <<[levelname |-> first.sev, tag |-> first.tag,
                         message |-> RecordMessage(msg, first.tag, pr)]>>
                 ELSE <<>>)
                \o (IF msg.level = "job_info" /\ ShellCmdLogged(shell, psc)
                    THEN <<[levelname |-> "INFO", tag |-> "shell",
                            message |-> Str(msg.shellcmd)]>>
                    ELSE <<>>),
             lines |->
                IF first.tag = "summary" /\ msg.msg = PyNone
                THEN job_info(msg, pr) ELSE <<>>]

\* ------------------------------------------------ ColorizingStreamHandler
\* the escape character "\033" of RESET_SEQ and COLOR_SEQ, written as the
\* four characters of its Python literal (no message under study has them)
ESC == "\\033"

RESET_SEQ == ESC \o "[0m"

\* COLOR_SEQ % n
COLOR_SEQ(n) == ESC \o "[" \o ToString(n) \o "m"

\* the class attribute colors, with RED = 1, GREEN = 2, YELLOW = 3, BLUE = 4
colors == [WARNING |-> 3, INFO |-> 2, DEBUG |-> 4, CRITICAL |-> 1, ERROR |-> 1]

\* the streams a handler is built on: an object without isatty attribute, one
\* whose isatty() is false (a file, a pipe), one whose isatty() is true
StreamKinds == {"no isatty", "not a tty", "tty"}

\* the property is_tty: isatty and isatty(), as a truth value
is_tty(st) == st # "no isatty" /\ st = "tty"

NoColor_IgnoreTty(nocolor, st, system) == nocolor \/ system = "Windows"

\* ColorizingStreamHandler.__init__: the attribute nocolor
NoColor(nocolor, st, system) == nocolor \/ ~is_tty(st) \/ system = "Windows"

\* ColorizingStreamHandler(nocolor, stream, timestamp) on a platform
ColorizingStreamHandler(nocolor, st, timestamp, system) ==
    [nocolor |-> NoColor(nocolor, st, system), timestamp |-> timestamp]

\* decorate(self, record), time.asctime() returning asctime
decorate(self, record, asctime) ==
    LET message == <<record.message>>
        stamped == IF self.timestamp
                   THEN <<"[" \o asctime \o "] ">> \o message ELSE message
        colored == IF ~self.nocolor /\ record.levelname \in DOMAIN colors
                   THEN <<COLOR_SEQ(30 + colors[record.levelname])>> \o stamped
                        \o <<RESET_SEQ>>
                   ELSE stamped
    IN Join("", colored)

\* the handlers and records under study; NOTSET is a severity outside colors
DecorateArgs ==
    [fn : {"decorate"}, nocolor : BOOLEAN, stream : StreamKinds,
     system : {"Linux", "Windows"}, timestamp : BOOLEAN,
     levelname : DOMAIN colors \cup {"NOTSET"},
     message : {"", "1 of 2 steps (50%) done"},
     asctime : {"Sun Nov  1 12:00:00 2026"}]

\* the largest number of entries of the resource mappings under study
MaxResources == 3

ResourceValue == [_cores |-> PyInt(4), _nodes |-> PyInt(1), mem_mb |-> PyInt(100),
                  gpu |-> PyInt(0)]

\* the resource mappings under study: a mapping is the sequence of its
\* <<name, value>> items in insertion order, no name twice
ResourceMaps ==
    UNION {{[i \in 1..n |-> <<ks[i], ResourceValue[ks[i]]>>] :
               ks \in {f \in [1..n -> DOMAIN ResourceValue] :
                          \A i, j \in 1..n : i # j => f[i] # f[j]}} :
           n \in 0..MaxResources}

ResourcesArgs ==
    [fn : {"format_resources", "format_resource_names"}, resources : ResourceMaps]

\* the job_info dicts under study
JobPriorities == {PyNone, PyInt(0), PyInt(5)}

JobThreads == {PyNone, PyInt(1), PyInt(4)}

JobReasons == {PyNone, PyStr("missing output")}

JobLogs == {PyNone, PyStr("a.log")}

JobResources ==
    {<<>>, <<<<"_cores", PyInt(4)>>, <<"_nodes", PyInt(1)>>>>,
     <<<<"_cores", PyInt(4)>>, <<"mem_mb", PyInt(100)>>, <<"_nodes", PyInt(1)>>>>}

JobDicts ==
    [level : {"job_info"}, name : {"a"}, local : BOOLEAN,
     input : {PyList(<<>>), PyList(<<"x.txt", "y.txt">>)},
     output : {PyList(<<>>), PyList(<<"z.txt">>)},
     log : JobLogs, reason : JobReasons, priority : JobPriorities,
     threads : JobThreads, resources : JobResources,
     msg : {PyNone, PyStr("custom message")},
     shellcmd : {PyNone, PyStr(""), PyStr("cmd")}]

\* the largest total of the progress events under study
MaxTotal == 40

\* the progress dicts under study: 0 <= done <= total, total > 0
ProgressDicts ==
    {m \in [level : {"progress"}, done : 0..MaxTotal, total : 1..MaxTotal] :
        m.done <= m.total}

RenderArgs ==
    [fn : {"console_handler"}, msg : JobDicts \cup ProgressDicts]
    \cup DecorateArgs \cup ResourcesArgs

\* console_handler applied to the event dict under study
ConsoleHandlerCall ==
    /\ args.fn = "console_handler"
    /\ ~out.done
    /\ out' = [done |-> TRUE, at |-> nsetups,
               val |-> ConsoleRecords(args.msg, quiet, printshellcmds, printreason)]
    /\ UNCHANGED <<config, held, stream, thr, nsetups, nevents, history, args>>

\* a handler is built on the stream under study and decorates the record
DecorateCall ==
    /\ args.fn = "decorate"
    /\ ~out.done
    /\ out' = [done |-> TRUE, at |-> nsetups,
               val |-> decorate(ColorizingStreamHandler(args.nocolor, args.stream,
                                                        args.timestamp, args.system),
                                [levelname |-> args.levelname,
                                 message |-> args.message],
                                args.asctime)]
    /\ UNCHANGED <<config, held, stream, thr, nsetups, nevents, history, args>>

\* format_resources applied to the mapping under study
FormatResourcesCall ==
    /\ args.fn = "format_resources"
    /\ ~out.done
    /\ out' = [done |-> TRUE, at |-> nsetups, val |-> format_resources(args.resources)]
    /\ UNCHANGED <<config, held, stream, thr, nsetups, nevents, history, args>>

\* format_resource_names applied to the mapping under study
FormatResourceNamesCall ==
    /\ args.fn = "format_resource_names"
    /\ ~out.done
    /\ out' = [done |-> TRUE, at |-> nsetups,
               val |-> format_resource_names(args.resources)]
    /\ UNCHANGED <<config, held, stream, thr, nsetups, nevents, history, args>>

\* --------------------------------------------------------- specifications
\* every step one caller thread t can take inside an event method while the
\* stream accepts every write
CallerStep(t) ==
    \/ JobInfoShell(t)
    \/ Return(t)
    \/ Acquire(t)
    \/ Format(t)
    \/ WriteMsg(t)
    \/ WriteTerm(t)
    \/ Flush(t)

\* Spec: one caller, every configuration and every event, a stream that
\* accepts every write: the rendering policy and the setup operations
Init == InitWith({1}) /\ args = NoArgs /\ out = NoOut

Next ==
    \/ \E h \in CustomHandlers \cup {"None"}, q, psc, pr, so, dbg \in BOOLEAN :
          setup_logger(h, q, psc, pr, so, dbg)
    \/ \E w \in 1..MaxSetups, so \in BOOLEAN : set_stream_handler(w, so)
    \/ \E t \in DOMAIN thr, e \in Events : CallEvent(t, e)
    \/ \E t \in DOMAIN thr : CallerStep(t)

Spec == Init /\ [][Next]_vars

\* EmitSpec: concurrent callers of the console handler, streams that can fail
\* at every statement of emit, setups that swap the writer on stderr and
\* switch shell commands on
EmitEvents ==
    {e \in Events : /\ e.level = "none"
                    /\ \/ e.kind \in {"info", "debug"}
                       \/ (e.kind = "job_info" /\ e.msg /\ e.shellcmd # "")}

EmitInit == InitWith(Threads) /\ args = NoArgs /\ out = NoOut

EmitNext ==
    \/ setup_logger("None", FALSE, TRUE, FALSE, FALSE, FALSE)
    \/ \E t \in DOMAIN thr, e \in EmitEvents : CallEvent(t, e)
    \/ \E t \in DOMAIN thr : CallerStep(t)
    \/ \E t \in DOMAIN thr, e \in ExcKinds : Fault(t, e)

EmitSpec == EmitInit /\ [][EmitNext]_vars

\* LiveSpec: EmitSpec under a fair scheduler: a thread that can take a step
\* of its call eventually does, and a thread waiting for a lock that becomes
\* free again and again eventually gets it
Fairness ==
    \A t \in Threads :
        /\ WF_vars(JobInfoShell(t) \/ Return(t) \/ Format(t) \/ WriteMsg(t)
                      \/ WriteTerm(t) \/ Flush(t))
        /\ SF_vars(Acquire(t))

LiveSpec == EmitInit /\ [][EmitNext]_vars /\ Fairness

\* RenderSpec: a rendering function applied once to arguments drawn from the
\* sets above, under the configuration the setups before it have left
RenderInit == InitWith({1}) /\ args \in RenderArgs /\ out = NoOut

RenderNext ==
    \/ \E q, psc, pr \in BOOLEAN : setup_logger("None", q, psc, pr, FALSE, FALSE)
    \/ ConsoleHandlerCall
    \/ DecorateCall
    \/ FormatResourcesCall
    \/ FormatResourceNamesCall

RenderSpec == RenderInit /\ [][RenderNext]_vars

\* ------------------------------------------------------------------ claims
InEmit(t) == thr[t].pc \in EmitSteps

\* C1: at most one emit is inside the locked region (format, the two stream
\* writes, flush) at any time, whichever writer instances the threads use.
C1_OneEmitAtATime ==
    \A t1, t2 \in DOMAIN thr : InEmit(t1) /\ InEmit(t2) => t1 = t2

\* one thread has written its message and not yet the terminator while another
\* waits in emit of a different writer instance on the same stream
C1_Witness ==
    \E t1, t2 \in DOMAIN thr :
        /\ thr[t1].pc = "write_term"
        /\ thr[t2].pc = "acquire"
        /\ CurWriter(t1) # CurWriter(t2)
        /\ writers[CurWriter(t1)].stream = writers[CurWriter(t2)].stream

\* C2: under fair scheduling every thread that enters emit leaves it again,
\* back in the console handler or returning to its caller, whatever the
\* outcomes of the emits before it.
C2_EmitTerminates ==
    \A t \in Threads : (thr[t].pc = "acquire") ~> (thr[t].pc \in {"shell", "ret"})

\* a thread waits for the lock while another thread's emit has ended in a
\* swallowed interrupt and the lock is free again
C2_Witness ==
    \E t1, t2 \in DOMAIN thr :
        /\ t1 # t2
        /\ thr[t1].pc = "acquire"
        /\ thr[t2].exc \in {"KeyboardInterrupt", "SystemExit"}
        /\ thr[t2].pc \in {"shell", "ret"}
        /\ Holder(LockFor(CurWriter(t1))) = {}

\* C3: a BrokenPipeError raised by any statement of emit leaves emit and the
\* event method: the call is over and the caller sees the exception.
C3_BrokenPipePropagates ==
    \A t \in DOMAIN thr :
        thr[t].exc = "BrokenPipeError" =>
            /\ thr[t].pc = "ret"
            /\ thr[t].raised = "BrokenPipeError"
            /\ thr[t].herr = 0

\* the terminator write of a job_info summary raised BrokenPipeError: the
\* message is on the stream, the event method has raised
C3_Witness ==
    \E t \in DOMAIN thr :
        /\ thr[t].raised = "BrokenPipeError"
        /\ thr[t].ev.kind = "job_info"
        /\ thr[t].calls = <<"summary">>
        /\ stream["stderr"] = <<"m">>

\* every message on a stream starts a line
LinesIntact ==
    \A s \in Streams : \A i \in 2..Len(stream[s]) :
        stream[s][i] = "m" => stream[s][i - 1] = "nl"

\* C4: an interrupt (KeyboardInterrupt, SystemExit) raised in emit does not
\* leave the event method, and while interrupts are the only exceptions that
\* have hit an emit every message written to a stream starts on a line of its
\* own, not joined to a record left without terminator.
C4_InterruptHarmless ==
    /\ \A t \in DOMAIN thr : thr[t].raised \notin {"KeyboardInterrupt", "SystemExit"}
    /\ onlyInterrupts => LinesIntact

\* C5: an exception of emit other than BrokenPipeError, KeyboardInterrupt and
\* SystemExit is passed to handleError exactly once for the record, does not
\* leave the event method, and leaves the lock free for later records;
\* handleError is called for no other outcome.
C5_OtherExceptionsHandled ==
    \A t \in DOMAIN thr :
        /\ thr[t].exc = "Exception" =>
              /\ thr[t].herr = 1
              /\ thr[t].raised = "none"
              /\ thr[t].pc \in {"shell", "ret"}
              /\ \A l \in 0..Len(writers) : t \notin Holder(l)
        /\ thr[t].herr = 1 => thr[t].exc = "Exception"
        /\ thr[t].herr <= 1

\* the summary record of a job_info failed with an ordinary exception and the
\* thread is about to write the shellcmd record
C5_Witness ==
    \E t \in DOMAIN thr :
        /\ thr[t].exc = "Exception"
        /\ thr[t].herr = 1
        /\ thr[t].pc = "shell"
        /\ ShellCmdLogged(thr[t].ev, printshellcmds)

\* C6: at most one writer is attached to the underlying logger, it is the one
\* of the most recent setup_logger / set_stream_handler call, and a record of
\* an event called after that call goes to that writer only.
C6_OneWriterAttached ==
    /\ Len(handlers) <= 1
    /\ handlers = IF stream_handler = 0 THEN <<>> ELSE <<stream_handler>>
    /\ \A t \in DOMAIN thr :
          thr[t].epoch = nsetups /\ thr[t].todo # <<>> =>
              thr[t].todo = <<stream_handler>>

\* two setups with different streams, then an event: its record is complete
\* on the second stream and the first stream has received nothing
C6_Witness ==
    /\ Len(writers) = 2
    /\ writers[1].stream # writers[2].stream
    /\ stream_handler = 2
    /\ \E t \in DOMAIN thr : thr[t].epoch = 2 /\ thr[t].pc = "ret" /\ thr[t].emits = 1
    /\ stream[writers[2].stream] = <<"m", "nl">>
    /\ stream[writers[1].stream] = <<>>

\* C7: no event method of the logger with the console handler raises, in any
\* state of the logger, the one before the first setup_logger included.
C7_NoEventRaises ==
    \A t \in DOMAIN thr : thr[t].via = "console" => thr[t].raised = "none"

\* an event whose call ran from start to end under one configuration, set by
\* setup_logger, and returned normally from the console handler
Settled(t) ==
    /\ thr[t].pc = "ret"
    /\ thr[t].via = "console"
    /\ thr[t].raised = "none"
    /\ thr[t].epoch = nsetups
    /\ quiet # "unset"

\* C8: with the console handler a progress event makes a record iff quiet is
\* off, and a job_info event makes (0 if quiet else 1) summary records followed
\* by (1 if printshellcmds and shellcmd is non-empty else 0) shellcmd records,
\* every one of them handed to the writer.
C8_QuietAndShellcmd ==
    \A t \in DOMAIN thr :
        Settled(t) =>
            /\ thr[t].ev.kind = "progress" =>
                  thr[t].calls = IF quiet = "True" THEN <<>> ELSE <<"progress">>
            /\ thr[t].ev.kind = "job_info" =>
                  thr[t].calls =
                      (IF quiet = "True" THEN <<>> ELSE <<"summary">>)
                      \o (IF printshellcmds /\ thr[t].ev.shellcmd # ""
                          THEN <<"shell">> ELSE <<>>)
            /\ thr[t].ev.kind \in {"progress", "job_info"} =>
                  thr[t].emits = Len(thr[t].calls)

\* quiet and printshellcmds both on: a job_info with a shellcmd and a msg has
\* written the shellcmd record alone
C8_Witness ==
    \E t \in DOMAIN thr :
        /\ Settled(t)
        /\ quiet = "True"
        /\ printshellcmds
        /\ thr[t].ev.kind = "job_info"
        /\ thr[t].ev.msg
        /\ thr[t].ev.shellcmd = "cmd"
        /\ thr[t].calls = <<"shell">>
        /\ thr[t].emits = 1

\* C9 as stated: after a setup that omits the handler the active handler is
\* the console handler, after a setup that supplies one it is that handler.
C9_OmittedHandlerIsConsole ==
    handler = IF lastHandlerArg = "None" THEN "console" ELSE lastHandlerArg

\* C9 amended: a setup that supplies a handler makes it the active handler, a
\* setup that omits the handler leaves the active handler as it was (the
\* console handler as long as no setup has supplied one), and an event called
\* after the latest setup is passed to the active handler and to it alone.
C9_OmittedHandlerKeepsHandler ==
    /\ [](lastHandlerArg # "None" => handler = lastHandlerArg)
    /\ [][lastHandlerArg' = "None" => handler' = handler]_vars
    /\ [](\A t \in DOMAIN thr :
            /\ thr[t].pc # "idle" /\ thr[t].epoch = nsetups => thr[t].via = handler
            /\ thr[t].via \in CustomHandlers => thr[t].calls = <<>> /\ thr[t].emits = 0)

\* a setup without handler followed a setup with a custom handler, and an
\* event called afterwards went to the custom handler
C9_Witness ==
    /\ lastHandlerArg = "None"
    /\ handler \in CustomHandlers
    /\ \E t \in DOMAIN thr :
          thr[t].pc = "ret" /\ thr[t].epoch = nsetups /\ thr[t].via = handler

\* C10: with the console handler after setup_logger an info, resources_info,
\* run_info or error event hands exactly one record to the writer whatever
\* quiet and the level are, and a debug event hands over one record if the
\* latest setup_logger had debug on and none otherwise.
C10_VisibleRecords ==
    \A t \in DOMAIN thr :
        Settled(t) =>
            /\ thr[t].ev.kind \in {"info", "resources_info", "run_info", "error"} =>
                  Len(thr[t].calls) = 1 /\ thr[t].emits = 1
            /\ thr[t].ev.kind = "debug" =>
                  thr[t].emits = IF lastDebugArg THEN 1 ELSE 0

\* a debug event was written after a setup with debug on and quiet on
C10_Witness ==
    \E t \in DOMAIN thr :
        /\ Settled(t)
        /\ thr[t].ev.kind = "debug"
        /\ lastDebugArg
        /\ quiet = "True"
        /\ thr[t].emits = 1
        /\ stream[writers[stream_handler].stream] = <<"m", "nl">>

\* the rendering function fn has been applied under the current configuration
Rendered(fn) == args.fn = fn /\ out.done /\ out.at = nsetups

\* a job_info dict was rendered as a structured summary
StructuredSummary ==
    /\ Rendered("console_handler")
    /\ args.msg.level = "job_info"
    /\ args.msg.msg = PyNone
    /\ quiet = "False"

ItemLines(item, values) == {"\t" \o item \o ": " \o Str(v) : v \in values}

HasLine(lines, set) == \E i \in 1..Len(lines) : lines[i] \in set

\* C11: in the structured summary the priority line is present iff priority is
\* not None and not 0, the threads line iff threads is not None and not 1;
\* priority 5 gives "\tpriority: 5" and threads 4 gives "\tthreads: 4".
C11_PriorityThreadsLines ==
    StructuredSummary =>
        LET m == args.msg
            ls == out.val.lines IN
        /\ HasLine(ls, ItemLines("priority", JobPriorities))
              <=> (m.priority # PyNone /\ m.priority # PyInt(0))
        /\ HasLine(ls, ItemLines("threads", JobThreads))
              <=> (m.threads # PyNone /\ m.threads # PyInt(1))
        /\ m.priority = PyInt(5) => HasLine(ls, {"\tpriority: 5"})
        /\ m.threads = PyInt(4) => HasLine(ls, {"\tthreads: 4"})

\* C12: the structured summary has a reason line iff printreason is on in the
\* configuration the latest setup left and reason is not None.
C12_ReasonLine ==
    StructuredSummary =>
        (HasLine(out.val.lines, ItemLines("reason", JobReasons))
            <=> (printreason /\ args.msg.reason # PyNone))

\* a summary of a job with a reason, rendered without reason line after a
\* second setup has switched printreason off
C12_Witness ==
    /\ StructuredSummary
    /\ nsetups = 2
    /\ ~printreason
    /\ args.msg.reason = PyStr("missing output")
    /\ ~HasLine(out.val.lines, {"\treason: missing output"})
    /\ HasLine(out.val.lines, {"\tlog: a.log"})

\* a progress dict was rendered by the console handler, quiet being False
ProgressRendered ==
    /\ Rendered("console_handler")
    /\ args.msg.level = "progress"
    /\ quiet = "False"

\* 100 * done / total rounded to an integer, a tie going to the even one
RoundedPercentage(done, total) ==
    CHOOSE p \in 0..100 :
        LET twice == IF 100 * done >= p * total
                     THEN 2 * (100 * done - p * total)
                     ELSE 2 * (p * total - 100 * done) IN
        twice < total \/ (twice = total /\ p % 2 = 0)

\* C13: a progress event with 0 <= done <= total, total > 0 is rendered as
\* the one record "{done} of {total} steps ({p}%) done" with
\* p = round(100 * done / total).
C13_ProgressPercentage ==
    ProgressRendered =>
        /\ Len(out.val.records) = 1
        /\ out.val.records[1].message =
              ToString(args.msg.done) \o " of " \o ToString(args.msg.total)
              \o " steps (" \o ToString(RoundedPercentage(args.msg.done, args.msg.total))
              \o "%) done"

\* text has part somewhere inside
Contains(text, part) ==
    \E i \in 1..(Len(text) - Len(part) + 1) :
        SubSeq(text, i, i + Len(part) - 1) = part

StartsWith(text, part) ==
    Len(text) >= Len(part) /\ SubSeq(text, 1, Len(part)) = part

EndsWith(text, part) ==
    Len(text) >= Len(part)
    /\ SubSeq(text, Len(text) - Len(part) + 1, Len(text)) = part

\* the handler under study does not color: nocolor is set, its stream is not
\* an interactive terminal, or the platform is Windows
ColoringOff == args.nocolor \/ args.stream # "tty" \/ args.system = "Windows"

\* C14: a handler whose stream is not an interactive terminal, or built with
\* nocolor, or on Windows, writes no escape sequence, whatever the timestamp
\* flag and the severity; a coloring handler brackets a record of a severity
\* of the color table by a color-start sequence and the reset sequence.
C14_ColorOnlyOnTerminal ==
    Rendered("decorate") =>
        /\ ColoringOff => ~Contains(out.val, ESC)
        /\ (~ColoringOff /\ args.levelname \in
                {"WARNING", "INFO", "DEBUG", "CRITICAL", "ERROR"}) =>
              /\ \E c \in 0..7 :
                    StartsWith(out.val, ESC \o "[" \o ToString(30 + c) \o "m")
              /\ EndsWith(out.val, ESC \o "[0m")
              /\ Contains(out.val, args.message)

\* a timestamped INFO record decorated without escapes for a redirected
\* stream, nocolor being unset
C14_Witness ==
    /\ Rendered("decorate")
    /\ args.timestamp /\ args.levelname = "INFO" /\ ~args.nocolor
    /\ args.system = "Linux" /\ args.stream = "not a tty"
    /\ out.val = "[Sun Nov  1 12:00:00 2026] 1 of 2 steps (50%) done"

\* the names of a mapping that are not _cores or _nodes, in insertion order
KeptNames(resources) ==
    LET keep == {i \in 1..Len(resources) : resources[i][1] \notin {"_cores", "_nodes"}}
        nth[k \in 0..Len(resources)] ==
            IF k = 0 THEN 0
            ELSE CHOOSE i \in keep : i > nth[k - 1] /\ \A j \in keep : j > nth[k - 1] => i <= j
    IN [k \in 1..Cardinality(keep) |-> resources[nth[k]]]

\* C15: format_resources returns the "name=value" entries of exactly the
\* keys other than _cores and _nodes, in insertion order, joined by ", ",
\* and "" when none remains; format_resource_names the same keys in the
\* same order without values.
C15_ResourcesWithoutCoresNodes ==
    /\ Rendered("format_resources") =>
          LET kept == KeptNames(args.resources) IN
          /\ out.val = Join(", ", [k \in 1..Len(kept) |->
                                      kept[k][1] \o "=" \o ToString(kept[k][2][2])])
          /\ kept = <<>> => out.val = ""
    /\ Rendered("format_resource_names") =>
          LET kept == KeptNames(args.resources) IN
          out.val = Join(", ", [k \in 1..Len(kept) |-> kept[k][1]])

\* a mapping with _cores first, _nodes between two other keys
C15_Witness ==
    /\ Rendered("format_resources")
    /\ Len(args.resources) = 3
    /\ args.resources[2][1] = "_nodes" /\ args.resources[1][1] = "gpu"
    /\ out.val = "gpu=0, mem_mb=100"

\* C16: a call of an event method passes one event to the active handler,
\* once, its level entry being the method called even when the caller gave a
\* level keyword, and no step of the call changes quiet, printshellcmds,
\* printreason, the level threshold, the active handler or the writers.
C16_EventMethodsOnlyDispatch ==
    /\ [](\A t \in DOMAIN thr :
             thr[t].pc # "idle" =>
                /\ thr[t].hcalls = 1
                /\ thr[t].ev.level = thr[t].ev.kind
                /\ thr[t].epoch = nsetups => thr[t].via = handler)
    /\ [][thr' # thr => UNCHANGED config]_vars

\* job_info called with a keyword level="info" after a setup, handled as a
\* job_info event by the console handler
C16_Witness ==
    \E t \in DOMAIN thr :
        /\ thr[t].ev.kind = "job_info"
        /\ thr[t].kw = "info"
        /\ thr[t].ev.level = "job_info"
        /\ thr[t].via = "console" /\ handler = "console"
        /\ thr[t].hcalls = 1
        /\ thr[t].calls = <<"summary">>

\* a job_info dict was rendered by the console handler, quiet being False
JobRendered ==
    /\ Rendered("console_handler")
    /\ args.msg.level = "job_info"
    /\ quiet = "False"

\* C17: with quiet False the console handler makes one summary record for a
\* job_info event, before the shellcmd record if there is one; with a msg
\* override the summary is that msg verbatim and holds no structured line,
\* without one it begins with the header "{local-marker}rule {name}:".
C17_MsgOverrideOrSummary ==
    JobRendered =>
        LET m    == args.msg
            recs == out.val.records IN
        /\ Len(recs) \in {1, 2}
        /\ recs[1].tag = "summary"
        /\ Len(recs) = 2 =>
              recs[2].tag = "shell" /\ recs[2].message = m.shellcmd[2]
        /\ m.msg # PyNone =>
              /\ recs[1].message = m.msg[2]
              /\ ~Contains(recs[1].message, "rule " \o m.name \o ":")
              /\ ~Contains(recs[1].message, "\t")
        /\ m.msg = PyNone =>
              StartsWith(recs[1].message,
                         (IF m.local THEN "local" ELSE "") \o "rule " \o m.name \o ":")

\* a local job with msg override and shell command, shell commands printed:
\* the msg alone, then the command
C17_Witness ==
    /\ JobRendered
    /\ printshellcmds
    /\ args.msg.local
    /\ args.msg.priority = PyInt(5)
    /\ Len(out.val.records) = 2
    /\ out.val.records[1].message = "custom message"
    /\ out.val.records[2].message = "cmd"

\* C18: under the console handler a d3dag event makes no logger call and no
\* record reaches a writer, and no step of the call changes the contents of
\* a stream, whatever quiet and the level threshold are.
C18_D3dagWritesNothing ==
    /\ [](\A t \in DOMAIN thr :
             (thr[t].ev.kind = "d3dag" /\ thr[t].via = "console") =>
                /\ thr[t].calls = <<>>
                /\ thr[t].emits = 0)
    /\ [][\A t \in DOMAIN thr :
             ((thr[t].ev.kind = "d3dag" \/ thr'[t].ev.kind = "d3dag") /\ thr' # thr)
                => stream' = stream]_vars

\* a d3dag call about to return under a debug setup, after an info event was
\* written: the stream holds that one record only
C18_Witness ==
    \E t \in DOMAIN thr :
        /\ thr[t].ev.kind = "d3dag"
        /\ thr[t].via = "console"
        /\ thr[t].pc = "ret"
        /\ level = "DEBUG" /\ quiet = "False"
        /\ nevents = 2
        /\ stream_handler # 0
        /\ stream[writers[stream_handler].stream] = <<"m", "nl">>

====
